---- MODULE Spec2Model ----
(***************************************************************************)
(* Incremental indexing pipeline and retrieval/answering engine of         *)
(* scripts/earnings_call_transcript.py (with its callers in app.py).       *)
(*                                                                         *)
(* Strings are modelled as sequences of tokens: the filename "A_q1.txt" is *)
(* <<"A", "_", "q1", ".txt">>, the empty string is << >>.  A file's content *)
(* is a content number; the text splitter and the MD5 digest are external  *)
(* libraries and are modelled by deterministic functions of the content.   *)
(***************************************************************************)
EXTENDS Integers, Sequences, FiniteSets, TLC

\* ------------------------------------------------------------------ bounds
MaxChunks == 2
MaxStore == 3
MaxBatch == 2
MaxTopK == 2
MaxTurns == 5
MaxClock == 2

\* ------------------------------------------------------- program constants
max_history == 3

\* ------------------------------------------------------------------- state
VARIABLES
    folderExists,     \* os.path.exists(folder)
    files,            \* filename -> content number, 0 when the file is absent
    metaFile,         \* vectorization_metadata.json on disk
    clock,            \* datetime.now(), advanced by every save
    collection,       \* the records of the Chroma collection
    pc,               \* position of the indexing run
    driver,           \* who runs the stages: "pipeline", "update" or "rebuild"
    transcripts,      \* result of fetch_earning_transcript
    chunked,          \* result of chunk_transcripts
    metadata,         \* vectorize_transcripts: the registry loaded in memory
    existing_count,   \* vectorize_transcripts: collection.count() at the start
    batch_size,       \* vectorize_transcripts: parameter
    i,                \* vectorize_transcripts: loop index
    processed,        \* value returned by vectorize_transcripts, -1 before
    ret,              \* outcome of update_vector_database_incremental
    results,          \* last answer of query_transcripts
    regBefore,        \* history: metaFile when the run's scan started
    storeBefore,      \* history: collection when vectorize_transcripts started
    runIds,           \* history: ids passed to collection.add in this run
    lastIndexed,      \* history: filename -> hash last indexed by a completed run
    selected_company, \* command line loop: the company chosen at the start
    turns,            \* command line loop: questions answered so far
    answer_context,   \* command line loop: accumulated questions and answers
    conversation_history, \* UI: st.session_state.conversation_history
    prompt,           \* last prompt sent to the generation capability
    chatpc,           \* position of the question loop
    uiOutcome,        \* outcome of the last question asked through the UI
    answer,           \* command line loop: the value generate_answers returned
    response,         \* rebuild: what the user typed at the confirmation
    metaBytes,        \* what json.load finds in the registry file
    pc2,              \* a second process: position of its indexing run
    chunked2,         \* a second process: result of chunk_transcripts
    metadata2,        \* a second process: the registry loaded in memory
    existing_count2,  \* a second process: collection.count() at the start
    batch_size2,      \* a second process: parameter
    i2,               \* a second process: loop index
    runIds2,          \* history: ids the second process passed to collection.add
    storeBefore2      \* history: collection when the second process started

vars == <<folderExists, files, metaFile, clock, collection, pc, driver,
          transcripts, chunked, metadata, existing_count, batch_size, i,
          processed, ret, results, regBefore, storeBefore, runIds, lastIndexed,
          selected_company, turns, answer_context, conversation_history,
          prompt, chatpc, uiOutcome, answer, response, metaBytes, pc2,
          chunked2, metadata2, existing_count2, batch_size2, i2, runIds2,
          storeBefore2>>

indexVars == <<folderExists, files, metaFile, clock, collection, pc, driver,
               transcripts, chunked, metadata, existing_count, batch_size, i,
               processed, ret, results, regBefore, storeBefore, runIds,
               lastIndexed>>

chatVars == <<selected_company, turns, answer_context, conversation_history,
              prompt, chatpc, uiOutcome, answer>>

run2Vars == <<pc2, chunked2, metadata2, existing_count2, batch_size2, i2,
              runIds2, storeBefore2>>

diskVars == <<response, metaBytes>>

\* --------------------------------------------------------------- the corpus
FileA == <<"A", "_", "q1", ".txt">>
FileB == <<"B", "_", "q1", ".txt">>
FileN == <<"notes", ".md">>
FileNames == {FileA, FileB, FileN}
TxtFiles == {FileA, FileB}
\* the contents a transcript file may hold: one for each number of chunks
Contents == 1..(MaxChunks + 1)

Min(a, b) == IF a < b THEN a ELSE b

\* filename.endswith('.txt')
EndsWithTxt(filename) == Len(filename) > 0 /\ filename[Len(filename)] = ".txt"

\* filename.split('_')[0]
SplitFirst(filename) ==
    LET under == {k \in 1..Len(filename) : filename[k] = "_"}
    IN  IF under = {} THEN filename
        ELSE SubSeq(filename, 1, (CHOOSE k \in under : \A m \in under : k <= m) - 1)

\* hashlib.md5(f.read()).hexdigest(): a digest of the bytes, without collisions
\* on the contents of the model
get_file_hash(content) == <<"md5", content>>

\* text_splitter.split_text(content): the chunk texts, in order; content c
\* splits into c chunks, the last content is an empty file and gives none
split_text(content) ==
    [k \in 1..(content % (MaxChunks + 1)) |-> <<"text", content, k>>]

\* os.listdir(folder): the names present, in any order
Present == {f \in FileNames : files[f] # 0}
Listings ==
    {l \in [1..Cardinality(Present) -> Present] :
        \A a, b \in 1..Cardinality(Present) : l[a] = l[b] => a = b}

\* ------------------------------------------------------------- the registry
NoMetadata == [processed_files |-> << >>, last_update |-> 0, total_chunks |-> 0]
NoFile == [exists |-> FALSE, data |-> NoMetadata]

load_metadata == IF metaFile.exists THEN metaFile.data ELSE NoMetadata

\* save_metadata(metadata): stamps last_update and rewrites the file
save_metadata(m) ==
    [exists |-> TRUE, data |-> [m EXCEPT !.last_update = clock + 1]]

\* ------------------------------------------------- fetch_earning_transcript
\* Unchanged with a defect: a registered file is skipped whatever its hash
Unchanged_IgnoresHash(processed_files, filename, file_hash) ==
    filename \in DOMAIN processed_files

\* the test of lines 82-85: the file is already processed and unchanged
Unchanged(processed_files, filename, file_hash) ==
    /\ filename \in DOMAIN processed_files
    /\ processed_files[filename].hash = file_hash

RECURSIVE FetchLoop(_, _)
FetchLoop(listing, processed_files) ==
    IF listing = << >> THEN << >>
    ELSE LET filename == Head(listing)
             file_hash == get_file_hash(files[filename])
             rest == FetchLoop(Tail(listing), processed_files)
         IN  IF ~EndsWithTxt(filename) THEN rest
             ELSE IF Unchanged(processed_files, filename, file_hash) THEN rest
             ELSE <<[company |-> SplitFirst(filename),
                     content |-> files[filename],
                     filename |-> filename,
                     hash |-> file_hash]>> \o rest

fetch_earning_transcript(listing) ==
    IF ~folderExists THEN << >>
    ELSE FetchLoop(listing, load_metadata.processed_files)

\* --------------------------------------------------------- chunk_transcripts
\* ChunksOf with a defect: the ordinals are counted from 1
ChunksOf_OneBased(transcript) ==
    LET chunks == split_text(transcript.content)
    IN  [k \in 1..Len(chunks) |->
            [Company |-> transcript.company,
             Filename |-> transcript.filename,
             Hash |-> transcript.hash,
             ChunkIndex |-> k,
             Text |-> chunks[k]]]

\* lines 119-126: the chunks of one transcript, enumerate(chunks) from 0
ChunksOf(transcript) ==
    LET chunks == split_text(transcript.content)
    IN  [k \in 1..Len(chunks) |->
            [Company |-> transcript.company,
             Filename |-> transcript.filename,
             Hash |-> transcript.hash,
             ChunkIndex |-> k - 1,
             Text |-> chunks[k]]]

RECURSIVE chunk_transcripts(_)
chunk_transcripts(ts) ==
    IF ts = << >> THEN << >>
    ELSE ChunksOf(Head(ts)) \o chunk_transcripts(Tail(ts))

\* ------------------------------------------------------ the vector store
\* f"chunkid_{n}"
ChunkId(n) == <<"chunkid_", n>>

\* BatchIds with a defect: the loop index is left out of the id
BatchIds_NoLoopIndex(base, idx, n) == [j \in 1..n |-> ChunkId(base + (j - 1))]

\* line 172: the ids of one batch of n chunks starting at loop index idx
BatchIds(base, idx, n) == [j \in 1..n |-> ChunkId(base + idx + (j - 1))]

StoreIds(coll) == {r.id : r \in coll}

\* collection.count()
Count(coll) == Cardinality(coll)

\* lines 160-169: the embedding call gives one vector for each text, in the
\* order of the input; the vector of a text is a function of the text
Embed(texts) == [j \in 1..Len(texts) |-> <<"vec", texts[j]>>]

\* Add with a defect: the records stored for the files of the batch are
\* replaced by the new ones
Add_ReplacesFile(coll, ids, batch) ==
    {r \in coll : \A k \in 1..Len(batch) : r.filename # batch[k].Filename}
    \cup {[id |-> ids[j],
           document |-> batch[j].Text,
           embedding |-> Embed([k \in 1..Len(batch) |-> batch[k].Text])[j],
           company |-> batch[j].Company,
           filename |-> batch[j].Filename,
           chunk_index |-> batch[j].ChunkIndex] : j \in 1..Len(batch)}

\* lines 173-181: collection.add of one batch; Chroma keeps the record already
\* stored under an id and ignores a second add of that id
Add(coll, ids, batch) ==
    coll \cup {[id |-> ids[j],
                document |-> batch[j].Text,
                embedding |-> Embed([k \in 1..Len(batch) |-> batch[k].Text])[j],
                company |-> batch[j].Company,
                filename |-> batch[j].Filename,
                chunk_index |-> batch[j].ChunkIndex] :
               j \in {k \in 1..Len(batch) : ids[k] \notin StoreIds(coll)}}

\* lines 184-188: the registry entries after one batch
RECURSIVE UpdateProcessed(_, _)
UpdateProcessed(processed_files, batch) ==
    IF batch = << >> THEN processed_files
    ELSE LET doc == Head(batch)
             next == IF doc.Filename \notin DOMAIN processed_files
                     THEN (doc.Filename :> [hash |-> doc.Hash, chunks |-> 0 + 1])
                          @@ processed_files
                     ELSE processed_files
         IN  UpdateProcessed(next, Tail(batch))

\* lines 155 and 167: total_api_calls, one per turn of the loop completed
total_api_calls == i \div batch_size

\* Batch with a defect: the slice holds one chunk whatever the batch size
Batch_OneChunk == SubSeq(chunked, i + 1, Min(i + 1, Len(chunked)))

\* chunked_transcripts[i:i+batch_size]
Batch == SubSeq(chunked, i + 1, Min(i + batch_size, Len(chunked)))

FilenamesOf(docs) == {docs[k].filename : k \in 1..Len(docs)}
ChunkFiles == {chunked[k].Filename : k \in 1..Len(chunked)}

\* ------------------------------------------------------------------ Init
NoResults == [asked |-> FALSE, company |-> [given |-> FALSE, val |-> << >>],
              top_k |-> 0, docs |-> << >>]

Resting == pc \in {"idle", "done", "aborted"}

\* the value of an optional argument or of a field that may be None
None == [given |-> FALSE, val |-> << >>]
Str(s) == [given |-> TRUE, val |-> s]

\* generate_answers has not returned yet; it returned content
NotReturned == [returned |-> FALSE, content |-> None]
Returned(content) == [returned |-> TRUE, content |-> content]

\* the locals of a second process before it starts
InitRun2 ==
    /\ pc2 = "idle"
    /\ chunked2 = << >>
    /\ metadata2 = NoMetadata
    /\ existing_count2 = 0
    /\ batch_size2 = 1
    /\ i2 = 0
    /\ runIds2 = << >>
    /\ storeBefore2 = {}

InitChatVars ==
    /\ answer = NotReturned
    /\ response = << >>
    /\ metaBytes = "complete"
    /\ InitRun2
    /\ selected_company = << >>
    /\ turns = 0
    /\ answer_context = << >>
    /\ conversation_history = << >>
    /\ prompt = << >>
    /\ chatpc = "start"
    /\ uiOutcome = "none"

Init ==
    /\ folderExists \in BOOLEAN
    /\ files = [f \in FileNames |-> IF EndsWithTxt(f) THEN 0 ELSE 1]
    /\ metaFile = NoFile
    /\ clock = 0
    /\ collection = {}
    /\ pc = "idle"
    /\ driver = "pipeline"
    /\ transcripts = << >>
    /\ chunked = << >>
    /\ metadata = NoMetadata
    /\ existing_count = 0
    /\ batch_size = 1
    /\ i = 0
    /\ processed = -1
    /\ ret = "none"
    /\ results = NoResults
    /\ regBefore = NoFile
    /\ storeBefore = {}
    /\ runIds = << >>
    /\ lastIndexed = << >>
    /\ InitChatVars

\* the locals of a run before it starts
ClearRun ==
    /\ transcripts' = << >>
    /\ chunked' = << >>
    /\ metadata' = NoMetadata
    /\ existing_count' = 0
    /\ batch_size' = 1
    /\ i' = 0
    /\ processed' = -1
    /\ ret' = "none"
    /\ results' = NoResults
    /\ regBefore' = metaFile
    /\ storeBefore' = collection
    /\ runIds' = << >>

\* ------------------------------------------------------- the environment
\* the scraper creates the folder
CreateFolder ==
    /\ Resting /\ ~folderExists
    /\ folderExists' = TRUE
    /\ pc' = "idle" /\ driver' = "pipeline"
    /\ ClearRun
    /\ UNCHANGED <<files, metaFile, clock, collection, lastIndexed>>
    /\ UNCHANGED <<chatVars, diskVars, run2Vars>>

\* a transcript (or another file) is written into the folder
WriteFile(f, c) ==
    /\ Resting /\ folderExists
    /\ files[f] # c
    /\ files' = [files EXCEPT ![f] = c]
    /\ pc' = "idle" /\ driver' = "pipeline"
    /\ ClearRun
    /\ UNCHANGED <<folderExists, metaFile, clock, collection, lastIndexed>>
    /\ UNCHANGED <<chatVars, diskVars, run2Vars>>

\* ------------------------------------------- the stages of an indexing run
\* transcripts = fetch_earning_transcript(folder), called by a pipeline
Fetch ==
    /\ Resting
    /\ \E listing \in Listings : transcripts' = fetch_earning_transcript(listing)
    /\ pc' = "fetched" /\ driver' = "pipeline"
    /\ chunked' = << >> /\ metadata' = NoMetadata /\ existing_count' = 0
    /\ batch_size' = 1 /\ i' = 0 /\ processed' = -1 /\ ret' = "none"
    /\ results' = NoResults
    /\ regBefore' = metaFile /\ storeBefore' = collection /\ runIds' = << >>
    /\ UNCHANGED <<folderExists, files, metaFile, clock, collection, lastIndexed>>
    /\ UNCHANGED <<chatVars, diskVars, run2Vars>>

\* update_vector_database_incremental, lines 218-222
UpdateFetch ==
    /\ Resting
    /\ \E listing \in Listings : transcripts' = fetch_earning_transcript(listing)
    /\ driver' = "update"
    /\ IF transcripts' = << >>
       THEN pc' = "done" /\ ret' = "True"
       ELSE pc' = "fetched" /\ ret' = "none"
    /\ chunked' = << >> /\ metadata' = NoMetadata /\ existing_count' = 0
    /\ batch_size' = 1 /\ i' = 0 /\ processed' = -1
    /\ results' = NoResults
    /\ regBefore' = metaFile /\ storeBefore' = collection /\ runIds' = << >>
    /\ UNCHANGED <<folderExists, files, metaFile, clock, collection, lastIndexed>>
    /\ UNCHANGED <<chatVars, diskVars, run2Vars>>

\* chunked = chunk_transcripts(transcripts)
Chunk ==
    /\ pc = "fetched"
    /\ chunked' = chunk_transcripts(transcripts)
    /\ pc' = "chunked"
    /\ results' = NoResults
    /\ UNCHANGED <<folderExists, files, metaFile, clock, collection, driver,
                   transcripts, metadata, existing_count, batch_size, i,
                   processed, ret, regBefore, storeBefore, runIds, lastIndexed>>
    /\ UNCHANGED <<chatVars, diskVars, run2Vars>>

\* update_vector_database_incremental, line 228: the name
\* vectorize_transcripts_BATCH is defined nowhere, the call raises NameError
UpdateVectorize ==
    /\ pc = "chunked" /\ driver = "update"
    /\ pc' = "aborted" /\ ret' = "NameError"
    /\ results' = NoResults
    /\ UNCHANGED <<folderExists, files, metaFile, clock, collection, driver,
                   transcripts, chunked, metadata, existing_count, batch_size, i,
                   processed, regBefore, storeBefore, runIds, lastIndexed>>
    /\ UNCHANGED <<chatVars, diskVars, run2Vars>>

\* VecStart with a defect: no early return for an empty list of chunks
VecStart_NoEarlyReturn ==
    /\ pc = "chunked" /\ driver \in {"pipeline", "rebuild"}
    /\ Count(collection) + Len(chunked) <= MaxStore
    /\ \E bs \in 1..MaxBatch : batch_size' = bs
    /\ metadata' = load_metadata
    /\ existing_count' = Count(collection)
    /\ processed' = -1 /\ pc' = "vectorizing"
    /\ i' = 0 /\ storeBefore' = collection /\ runIds' = << >>
    /\ results' = NoResults
    /\ UNCHANGED <<folderExists, files, metaFile, clock, collection, driver,
                   transcripts, chunked, ret, regBefore, lastIndexed>>
    /\ UNCHANGED <<chatVars, diskVars, run2Vars>>

\* vectorize_transcripts, lines 143-153
VecStart ==
    /\ pc = "chunked" /\ driver \in {"pipeline", "rebuild"}
    /\ Count(collection) + Len(chunked) <= MaxStore
    /\ IF chunked = << >>
       THEN /\ processed' = 0 /\ pc' = "done"
            /\ UNCHANGED <<metadata, existing_count, batch_size>>
       ELSE /\ \E bs \in 1..MaxBatch : batch_size' = bs
            /\ metadata' = load_metadata
            /\ existing_count' = Count(collection)
            /\ processed' = -1 /\ pc' = "vectorizing"
    /\ i' = 0 /\ storeBefore' = collection /\ runIds' = << >>
    /\ results' = NoResults
    /\ UNCHANGED <<folderExists, files, metaFile, clock, collection, driver,
                   transcripts, chunked, ret, regBefore, lastIndexed>>
    /\ UNCHANGED <<chatVars, diskVars, run2Vars>>

\* vectorize_transcripts, lines 158-192: what one turn of the loop does to
\* the store and to the locals of the run
BatchStep ==
    /\ pc = "vectorizing" /\ i < Len(chunked)
    /\ LET ids == BatchIds(existing_count, i, Len(Batch))
       IN  /\ collection' = Add(collection, ids, Batch)
           /\ runIds' = runIds \o ids
    /\ metadata' = [metadata EXCEPT
                      !.processed_files = UpdateProcessed(@, Batch)]
    /\ i' = i + batch_size
    /\ results' = NoResults
    /\ UNCHANGED <<folderExists, files, pc, driver, transcripts, chunked,
                   existing_count, batch_size, processed, ret, regBefore,
                   storeBefore, lastIndexed>>
    /\ UNCHANGED <<chatVars, diskVars, run2Vars>>

\* VecBatch with a defect: the registry file is saved after every batch
VecBatch_SavesEachBatch ==
    /\ BatchStep
    /\ metaFile' = save_metadata(metadata')
    /\ clock' = clock + 1

\* vectorize_transcripts, lines 158-192: one batch is embedded and added; the
\* registry file is not written inside the loop
VecBatch ==
    /\ BatchStep
    /\ UNCHANGED <<metaFile, clock>>

\* EmbedFail with a defect: the exception is swallowed and the loop goes on
\* with the next batch
EmbedFail_SkipsBatch ==
    /\ pc = "vectorizing" /\ i < Len(chunked)
    /\ i' = i + batch_size
    /\ results' = NoResults
    /\ UNCHANGED <<folderExists, files, metaFile, clock, collection, pc, driver,
                   transcripts, chunked, metadata, existing_count, batch_size,
                   processed, ret, regBefore, storeBefore, runIds, lastIndexed>>
    /\ UNCHANGED <<chatVars, diskVars, run2Vars>>

\* vectorize_transcripts, lines 163-166: the embedding call raises
EmbedFail ==
    /\ pc = "vectorizing" /\ i < Len(chunked)
    /\ pc' = "aborted"
    /\ results' = NoResults
    /\ UNCHANGED <<folderExists, files, metaFile, clock, collection, driver,
                   transcripts, chunked, metadata, existing_count, batch_size, i,
                   processed, ret, regBefore, storeBefore, runIds, lastIndexed>>
    /\ UNCHANGED <<chatVars, diskVars, run2Vars>>

\* vectorize_transcripts, lines 193-203: the registry is saved, once
VecFinish ==
    /\ pc = "vectorizing" /\ i >= Len(chunked)
    /\ metaFile' = save_metadata([metadata EXCEPT
                                    !.total_chunks = Count(collection)])
    /\ clock' = clock + 1
    /\ processed' = Len(chunked)
    /\ pc' = "done"
    /\ lastIndexed' = [f \in ChunkFiles |->
                         chunked[CHOOSE k \in 1..Len(chunked) :
                                   chunked[k].Filename = f].Hash] @@ lastIndexed
    /\ results' = NoResults
    /\ UNCHANGED <<folderExists, files, collection, driver, transcripts, chunked,
                   metadata, existing_count, batch_size, i, ret, regBefore,
                   storeBefore, runIds>>
    /\ UNCHANGED <<chatVars, diskVars, run2Vars>>

\* the process is killed while a run is under way
Crash ==
    /\ pc \in {"fetched", "chunked", "vectorizing"}
    /\ pc' = "aborted"
    /\ results' = NoResults
    /\ UNCHANGED <<folderExists, files, metaFile, clock, collection, driver,
                   transcripts, chunked, metadata, existing_count, batch_size, i,
                   processed, ret, regBefore, storeBefore, runIds, lastIndexed>>
    /\ UNCHANGED <<chatVars, diskVars, run2Vars>>

Next ==
    \/ CreateFolder
    \/ \E f \in TxtFiles, c \in Contents : WriteFile(f, c)
    \/ Fetch
    \/ UpdateFetch
    \/ Chunk
    \/ UpdateVectorize
    \/ VecStart
    \/ VecBatch
    \/ EmbedFail
    \/ VecFinish
    \/ Crash

Spec == Init /\ [][Next]_vars

\* ------------------------------------------------ rebuild_database_from_scratch
\* what the user may type at the prompt of line 323, letter by letter
Responses ==
    {<<"y", "e", "s">>, <<"Y", "e", "s">>, <<"n", "o">>, <<"y">>, << >>}

\* str.lower() on the letters of the model
LowerChar(c) ==
    CASE c = "Y" -> "y"
      [] c = "E" -> "e"
      [] c = "S" -> "s"
      [] c = "N" -> "n"
      [] c = "O" -> "o"
      [] OTHER -> c

Lower(str) == [k \in 1..Len(str) |-> LowerChar(str[k])]

\* Declined with a defect: only the answer 'no' cancels
Declined_OnlyNo(r) == Lower(r) = <<"n", "o">>

\* line 324: response.lower() != 'yes'
Declined(r) == Lower(r) # <<"y", "e", "s">>

\* lines 346-358: every .txt file of the listing, registered or not
RECURSIVE RebuildLoop(_)
RebuildLoop(listing) ==
    IF listing = << >> THEN << >>
    ELSE LET filename == Head(listing)
             rest == RebuildLoop(Tail(listing))
         IN  IF ~EndsWithTxt(filename) THEN rest
             ELSE <<[company |-> SplitFirst(filename),
                     content |-> files[filename],
                     filename |-> filename,
                     hash |-> get_file_hash(files[filename])]>> \o rest

\* the folder of transcripts is removed or renamed by its owner; the store
\* and the registry file live elsewhere and stay
RemoveFolder ==
    /\ Resting /\ folderExists
    /\ folderExists' = FALSE
    /\ files' = [f \in FileNames |-> IF EndsWithTxt(f) THEN 0 ELSE 1]
    /\ pc' = "idle" /\ driver' = "pipeline"
    /\ ClearRun
    /\ UNCHANGED <<metaFile, clock, collection, lastIndexed>>
    /\ UNCHANGED <<chatVars, diskVars, run2Vars>>

\* rebuild_database_from_scratch, lines 323-362: the confirmation, the
\* deletion of the collection and of the registry file, the loading of all
\* transcripts; os.listdir raises when the folder is missing
Rebuild(r) ==
    /\ Resting /\ clock < MaxClock
    /\ response' = r /\ driver' = "rebuild"
    /\ regBefore' = metaFile /\ storeBefore' = collection
    /\ IF Declined(r)
       THEN /\ pc' = "done" /\ ret' = "False"
            /\ transcripts' = << >>
            /\ UNCHANGED <<collection, metaFile, lastIndexed>>
       ELSE /\ collection' = {}
            /\ metaFile' = NoFile
            /\ lastIndexed' = << >>
            /\ IF ~folderExists
               THEN /\ pc' = "aborted" /\ ret' = "FileNotFoundError"
                    /\ transcripts' = << >>
               ELSE /\ \E listing \in Listings : transcripts' = RebuildLoop(listing)
                    /\ IF transcripts' = << >>
                       THEN pc' = "done" /\ ret' = "False"
                       ELSE pc' = "fetched" /\ ret' = "none"
    /\ chunked' = << >> /\ metadata' = NoMetadata /\ existing_count' = 0
    /\ batch_size' = 1 /\ i' = 0 /\ processed' = -1
    /\ results' = NoResults /\ runIds' = << >>
    /\ UNCHANGED <<folderExists, files, clock, metaBytes>>
    /\ UNCHANGED <<chatVars, run2Vars>>

\* rebuild_database_from_scratch, lines 365-374: vectorize_transcripts has
\* returned, the rebuild returns True
RebuildDone ==
    /\ pc = "done" /\ driver = "rebuild" /\ ret = "none"
    /\ ret' = "True"
    /\ results' = NoResults
    /\ UNCHANGED <<folderExists, files, metaFile, clock, collection, pc, driver,
                   transcripts, chunked, metadata, existing_count, batch_size, i,
                   processed, regBefore, storeBefore, runIds, lastIndexed>>
    /\ UNCHANGED <<chatVars, diskVars, run2Vars>>

\* the command line: python earnings_call_transcript.py rebuild, next to
\* the indexing runs of the pipeline
NextRebuild ==
    \/ CreateFolder
    \/ \E f \in TxtFiles, c \in Contents : WriteFile(f, c)
    \/ Fetch
    \/ Chunk
    \/ VecStart
    \/ VecBatch
    \/ VecFinish
    \/ RemoveFolder
    \/ \E r \in Responses : Rebuild(r)
    \/ RebuildDone

SpecRebuild == Init /\ [][NextRebuild]_vars

\* ------------------------------------------------- failures of the file system
\* fetch_earning_transcript, lines 74-102: a listed .txt file disappears
\* between os.listdir and get_file_hash or open; neither call has a handler,
\* so FileNotFoundError ends the scan and nothing is returned
FetchReadError ==
    /\ Resting /\ folderExists /\ metaBytes = "complete"
    /\ \E f \in Present : /\ EndsWithTxt(f)
                          /\ files' = [files EXCEPT ![f] = 0]
    /\ pc' = "aborted" /\ driver' = "pipeline"
    /\ ret' = "FileNotFoundError"
    /\ transcripts' = << >> /\ chunked' = << >> /\ metadata' = NoMetadata
    /\ existing_count' = 0 /\ batch_size' = 1 /\ i' = 0 /\ processed' = -1
    /\ results' = NoResults
    /\ regBefore' = metaFile /\ storeBefore' = collection /\ runIds' = << >>
    /\ UNCHANGED <<folderExists, metaFile, clock, collection, lastIndexed>>
    /\ UNCHANGED <<chatVars, diskVars, run2Vars>>

\* vectorize_transcripts, line 194, and save_metadata, lines 32-34:
\* open(METADATA_FILE, 'w') truncates the file
SaveOpen ==
    /\ pc = "vectorizing" /\ i >= Len(chunked)
    /\ metadata' = [metadata EXCEPT !.total_chunks = Count(collection)]
    /\ metaBytes' = "empty"
    /\ pc' = "saving"
    /\ results' = NoResults
    /\ UNCHANGED <<folderExists, files, metaFile, clock, collection, driver,
                   transcripts, chunked, existing_count, batch_size, i, processed,
                   ret, regBefore, storeBefore, runIds, lastIndexed>>
    /\ UNCHANGED <<chatVars, response, run2Vars>>

\* save_metadata, line 35: json.dump has written a part of the document
SaveDump ==
    /\ pc = "saving" /\ metaBytes = "empty"
    /\ metaBytes' = "partial"
    /\ results' = NoResults
    /\ UNCHANGED <<folderExists, files, metaFile, clock, collection, pc, driver,
                   transcripts, chunked, metadata, existing_count, batch_size, i,
                   processed, ret, regBefore, storeBefore, runIds, lastIndexed>>
    /\ UNCHANGED <<chatVars, response, run2Vars>>

\* save_metadata, lines 34-35: the with block ends, the document is complete;
\* vectorize_transcripts returns
SaveClose ==
    /\ pc = "saving"
    /\ metaFile' = save_metadata(metadata)
    /\ metaBytes' = "complete"
    /\ clock' = clock + 1
    /\ processed' = Len(chunked)
    /\ pc' = "done"
    /\ lastIndexed' = [f \in ChunkFiles |->
                         chunked[CHOOSE k \in 1..Len(chunked) :
                                   chunked[k].Filename = f].Hash] @@ lastIndexed
    /\ results' = NoResults
    /\ UNCHANGED <<folderExists, files, collection, driver, transcripts, chunked,
                   metadata, existing_count, batch_size, i, ret, regBefore,
                   storeBefore, runIds>>
    /\ UNCHANGED <<chatVars, response, run2Vars>>

\* the process is killed inside save_metadata
KillInSave ==
    /\ pc = "saving"
    /\ pc' = "aborted"
    /\ results' = NoResults
    /\ UNCHANGED <<folderExists, files, metaFile, clock, collection, driver,
                   transcripts, chunked, metadata, existing_count, batch_size, i,
                   processed, ret, regBefore, storeBefore, runIds, lastIndexed>>
    /\ UNCHANGED <<chatVars, diskVars, run2Vars>>

\* load_metadata, lines 26-28: the file exists but holds no complete
\* document; json.load raises JSONDecodeError in the next run
LoadTorn ==
    /\ Resting /\ metaBytes # "complete" /\ ret # "JSONDecodeError"
    /\ pc' = "aborted" /\ driver' = "pipeline"
    /\ ret' = "JSONDecodeError"
    /\ transcripts' = << >> /\ chunked' = << >> /\ metadata' = NoMetadata
    /\ existing_count' = 0 /\ batch_size' = 1 /\ i' = 0 /\ processed' = -1
    /\ results' = NoResults
    /\ regBefore' = metaFile /\ storeBefore' = collection /\ runIds' = << >>
    /\ UNCHANGED <<folderExists, files, metaFile, clock, collection, lastIndexed>>
    /\ UNCHANGED <<chatVars, diskVars, run2Vars>>

\* indexing runs in which a file may vanish and the process may be killed
\* while the registry file is rewritten
NextFault ==
    \/ CreateFolder
    \/ \E f \in TxtFiles, c \in Contents : WriteFile(f, c)
    \/ metaBytes = "complete" /\ Fetch
    \/ FetchReadError
    \/ Chunk
    \/ VecStart
    \/ VecBatch
    \/ SaveOpen
    \/ SaveDump
    \/ SaveClose
    \/ KillInSave
    \/ LoadTorn

SpecFault == Init /\ [][NextFault]_vars

\* ------------------------------------------- two processes on the same store
\* chunked_transcripts[i:i+batch_size] in the second process
Batch2 == SubSeq(chunked2, i2 + 1, Min(i2 + batch_size2, Len(chunked2)))

\* the second process scans the folder and chunks what the scan returned
Fetch2 ==
    /\ pc2 \in {"idle", "done"}
    /\ \E listing \in Listings :
          chunked2' = chunk_transcripts(fetch_earning_transcript(listing))
    /\ pc2' = "chunked"
    /\ metadata2' = NoMetadata /\ existing_count2' = 0 /\ batch_size2' = 1
    /\ i2' = 0 /\ runIds2' = << >> /\ storeBefore2' = collection
    /\ UNCHANGED <<indexVars, chatVars, diskVars>>

\* a folder that holds the one transcript file f with content c
FolderOf(f, c) == [g \in FileNames |-> IF g = f THEN c ELSE 0]

\* the loop of lines 74-102 over the listing of a folder given as argument
RECURSIVE ScanLoop(_, _, _)
ScanLoop(folder, listing, processed_files) ==
    IF listing = << >> THEN << >>
    ELSE LET filename == Head(listing)
             file_hash == get_file_hash(folder[filename])
             rest == ScanLoop(folder, Tail(listing), processed_files)
         IN  IF ~EndsWithTxt(filename) THEN rest
             ELSE IF Unchanged(processed_files, filename, file_hash) THEN rest
             ELSE <<[company |-> SplitFirst(filename),
                     content |-> folder[filename],
                     filename |-> filename,
                     hash |-> file_hash]>> \o rest

\* the second process runs the pipeline on a folder of its own,
\* fetch_earning_transcript(folder), which holds one transcript; the store
\* and the registry file are those of the first process
Fetch2Other(f, c) ==
    /\ pc2 \in {"idle", "done"}
    /\ chunked2' = chunk_transcripts(
                       ScanLoop(FolderOf(f, c), <<f>>, load_metadata.processed_files))
    /\ pc2' = "chunked"
    /\ metadata2' = NoMetadata /\ existing_count2' = 0 /\ batch_size2' = 1
    /\ i2' = 0 /\ runIds2' = << >> /\ storeBefore2' = collection
    /\ UNCHANGED <<indexVars, chatVars, diskVars>>

\* vectorize_transcripts, lines 143-153, in the second process
Vec2Start ==
    /\ pc2 = "chunked"
    /\ Count(collection) + Len(chunked2) <= MaxStore
    /\ IF chunked2 = << >>
       THEN /\ pc2' = "done"
            /\ UNCHANGED <<metadata2, existing_count2, batch_size2>>
       ELSE /\ \E bs \in 1..MaxBatch : batch_size2' = bs
            /\ metadata2' = load_metadata
            /\ existing_count2' = Count(collection)
            /\ pc2' = "vectorizing"
    /\ i2' = 0 /\ storeBefore2' = collection /\ runIds2' = << >>
    /\ UNCHANGED chunked2
    /\ UNCHANGED <<indexVars, chatVars, diskVars>>

\* Vec2Batch with a defect: the ids of a batch start at the count of the
\* store read when the batch is added
Vec2Batch_CountsPerBatch ==
    /\ pc2 = "vectorizing" /\ i2 < Len(chunked2)
    /\ LET ids == BatchIds(Count(collection), 0, Len(Batch2))
       IN  /\ collection' = Add(collection, ids, Batch2)
           /\ runIds2' = runIds2 \o ids
    /\ metadata2' = [metadata2 EXCEPT
                       !.processed_files = UpdateProcessed(@, Batch2)]
    /\ i2' = i2 + batch_size2
    /\ UNCHANGED <<pc2, chunked2, existing_count2, batch_size2, storeBefore2>>
    /\ UNCHANGED <<folderExists, files, metaFile, clock, pc, driver, transcripts,
                   chunked, metadata, existing_count, batch_size, i, processed,
                   ret, results, regBefore, storeBefore, runIds, lastIndexed>>
    /\ UNCHANGED <<chatVars, diskVars>>

\* vectorize_transcripts, lines 158-192, in the second process: the ids are
\* computed from the count read at the start of the run
Vec2Batch ==
    /\ pc2 = "vectorizing" /\ i2 < Len(chunked2)
    /\ LET ids == BatchIds(existing_count2, i2, Len(Batch2))
       IN  /\ collection' = Add(collection, ids, Batch2)
           /\ runIds2' = runIds2 \o ids
    /\ metadata2' = [metadata2 EXCEPT
                       !.processed_files = UpdateProcessed(@, Batch2)]
    /\ i2' = i2 + batch_size2
    /\ UNCHANGED <<pc2, chunked2, existing_count2, batch_size2, storeBefore2>>
    /\ UNCHANGED <<folderExists, files, metaFile, clock, pc, driver, transcripts,
                   chunked, metadata, existing_count, batch_size, i, processed,
                   ret, results, regBefore, storeBefore, runIds, lastIndexed>>
    /\ UNCHANGED <<chatVars, diskVars>>

\* vectorize_transcripts, lines 193-203, in the second process
Vec2Finish ==
    /\ pc2 = "vectorizing" /\ i2 >= Len(chunked2)
    /\ metaFile' = save_metadata([metadata2 EXCEPT
                                    !.total_chunks = Count(collection)])
    /\ clock' = clock + 1
    /\ pc2' = "done"
    /\ UNCHANGED <<chunked2, metadata2, existing_count2, batch_size2, i2, runIds2,
                   storeBefore2>>
    /\ UNCHANGED <<folderExists, files, collection, pc, driver, transcripts,
                   chunked, metadata, existing_count, batch_size, i, processed,
                   ret, results, regBefore, storeBefore, runIds, lastIndexed>>
    /\ UNCHANGED <<chatVars, diskVars>>

\* two pipeline processes started side by side (two terminals, or a scheduled
\* update next to a manual one); nothing in the code serializes them.  Files
\* are written while the second process rests, and no run starts after
\* MaxClock saves
NextConc ==
    \/ CreateFolder
    \/ pc2 \in {"idle", "done"} /\ \E f \in TxtFiles, c \in Contents : WriteFile(f, c)
    \/ clock < MaxClock /\ Fetch
    \/ Chunk
    \/ VecStart
    \/ VecBatch
    \/ VecFinish
    \/ clock < MaxClock /\ Fetch2
    \/ Vec2Start
    \/ Vec2Batch
    \/ Vec2Finish

SpecConc == Init /\ [][NextConc]_vars

\* the two processes, the second one also started on folders of its own
NextFolders ==
    \/ NextConc
    \/ clock < MaxClock /\ \E f \in TxtFiles, c \in Contents : Fetch2Other(f, c)

SpecFolders == Init /\ [][NextFolders]_vars

\* ---------------------------------------------------------- query_transcripts

\* Python truth value of the company argument: None and "" are false
Truthy(company) == company.given /\ company.val # << >>

\* line 262: where={"company": {"$eq": company}} if company else None
Matching(coll, company) ==
    IF Truthy(company) THEN {r \in coll : r.company = company.val} ELSE coll

\* collection.query: the n_results nearest records among those matching, in
\* the store's similarity order (any order in the model)
Rankings(S, n) ==
    {l \in [1..Min(n, Cardinality(S)) -> S] :
        \A a, b \in 1..Min(n, Cardinality(S)) : l[a] = l[b] => a = b}

CompanyArgs == {None, Str(<< >>), Str(<<"A">>), Str(<<"B">>)}

query_transcripts(company, top_k) ==
    /\ Resting /\ ~results.asked
    /\ \E ranking \in Rankings(Matching(collection, company), top_k) :
          results' = [asked |-> TRUE, company |-> company, top_k |-> top_k,
                      docs |-> ranking]
    /\ UNCHANGED <<folderExists, files, metaFile, clock, collection, pc, driver,
                   transcripts, chunked, metadata, existing_count, batch_size, i,
                   processed, ret, regBefore, storeBefore, runIds, lastIndexed>>
    /\ UNCHANGED <<chatVars, diskVars, run2Vars>>

\* the caller has used the documents returned
QueryDone ==
    /\ results.asked
    /\ results' = NoResults
    /\ UNCHANGED <<folderExists, files, metaFile, clock, collection, pc, driver,
                   transcripts, chunked, metadata, existing_count, batch_size, i,
                   processed, ret, regBefore, storeBefore, runIds, lastIndexed>>
    /\ UNCHANGED <<chatVars, diskVars, run2Vars>>

NextQuery ==
    \/ ~results.asked /\ Next
    \/ \E company \in CompanyArgs, top_k \in 1..MaxTopK :
          query_transcripts(company, top_k)
    \/ QueryDone

SpecQuery == Init /\ [][NextQuery]_vars

\* ------------------------------------------------- the question loop (CLI)
\* a token of a string: a literal piece of text, or the text of the question
\* or answer of turn n
Lit(s) == <<"lit", 0, s>>
QuestionTok(n, text) == <<"q", n, text>>
AnswerTok(n, text) == <<"a", n, text>>
Texts == {"t1", "t2"}

\* the text of message.content when there is one; it may be empty
Replies == Texts \cup {""}

\* top_k: int = 5, the default of query_transcripts
default_top_k == 5

\* get_available_companies(collection)
get_available_companies(coll) == {r.company : r \in coll}

\* "\n\n".join(relevant_transcripts)
RECURSIVE Join(_)
Join(docs) ==
    IF docs = << >> THEN << >>
    ELSE IF Len(docs) = 1 THEN <<Lit(docs[1])>>
    ELSE <<Lit(docs[1]), Lit("\n\n")>> \o Join(Tail(docs))

\* generate_answers, lines 279-297: the prompt built from the documents and
\* the query
BuildPrompt(query, relevant_transcripts) ==
    <<Lit("instructions"), Lit("Context from earnings call:")>>
    \o Join(relevant_transcripts)
    \o <<Lit("Question: ")>> \o query \o <<Lit("Answer:")>>

\* the turns whose answer is carried by a token sequence
TurnsIn(toks) == {toks[k][2] : k \in {m \in 1..Len(toks) : toks[m][1] = "a"}}

\* a store holding the chunks of one indexed transcript, A_q1.txt
IndexedA ==
    {[id |-> ChunkId(0), document |-> <<"text", 1, 1>>,
      embedding |-> <<"vec", <<"text", 1, 1>>>>, company |-> <<"A">>,
      filename |-> FileA, chunk_index |-> 0]}

InitChat ==
    /\ folderExists = TRUE
    /\ files = [f \in FileNames |-> IF f = FileB THEN 0 ELSE 1]
    /\ metaFile = [exists |-> TRUE,
                   data |-> [processed_files |->
                                (FileA :> [hash |-> get_file_hash(1), chunks |-> 1]),
                             last_update |-> 1, total_chunks |-> 1]]
    /\ clock = 1
    /\ collection = IndexedA
    /\ pc = "idle"
    /\ driver = "pipeline"
    /\ transcripts = << >>
    /\ chunked = << >>
    /\ metadata = NoMetadata
    /\ existing_count = 0
    /\ batch_size = 1
    /\ i = 0
    /\ processed = -1
    /\ ret = "none"
    /\ results = NoResults
    /\ regBefore = metaFile
    /\ storeBefore = collection
    /\ runIds = << >>
    /\ lastIndexed = (FileA :> get_file_hash(1))
    /\ InitChatVars

\* lines 445-457: the user selects one of the companies of the collection
SelectCompany ==
    /\ chatpc = "start"
    /\ \E company \in get_available_companies(collection) :
          selected_company' = company
    /\ chatpc' = "loop"
    /\ UNCHANGED <<turns, answer_context, conversation_history, prompt, uiOutcome,
                   answer>>
    /\ UNCHANGED <<indexVars, diskVars, run2Vars>>

\* lines 459-468: one question of the loop is asked and answered
Ask(q, a) ==
    /\ chatpc = "loop" /\ turns < MaxTurns
    /\ LET query == <<QuestionTok(turns + 1, q), Lit("[previous context: ")>>
                    \o answer_context \o <<Lit("]")>>
       IN  /\ \E ranking \in Rankings(Matching(collection, Str(selected_company)),
                                     default_top_k) :
                 prompt' = BuildPrompt(query, [k \in 1..Len(ranking) |->
                                                 ranking[k].document])
           /\ answer_context' = answer_context \o <<Lit("\n\nQ: ")>> \o query
                                \o <<Lit("\nA: "), AnswerTok(turns + 1, a), Lit("\n")>>
    /\ turns' = turns + 1
    /\ answer' = Returned(Str(a))
    /\ UNCHANGED <<selected_company, conversation_history, chatpc, uiOutcome>>
    /\ UNCHANGED <<indexVars, diskVars, run2Vars>>

\* line 463: the query of a turn, the question followed by the context
CliQuery(q) ==
    <<QuestionTok(turns + 1, q), Lit("[previous context: ")>>
    \o answer_context \o <<Lit("]")>>

\* lines 299-309 and 465-467: the message of the capability has no content;
\* generate_answers returns None as it is, and the concatenation of line 467
\* raises TypeError, which ends the loop
AskNoContent(q) ==
    /\ chatpc = "loop" /\ turns < MaxTurns
    /\ \E ranking \in Rankings(Matching(collection, Str(selected_company)),
                                default_top_k) :
          prompt' = BuildPrompt(CliQuery(q), [k \in 1..Len(ranking) |->
                                                ranking[k].document])
    /\ answer' = Returned(None)
    /\ chatpc' = "raised"
    /\ UNCHANGED <<selected_company, turns, answer_context, conversation_history,
                   uiOutcome>>
    /\ UNCHANGED <<indexVars, diskVars, run2Vars>>

\* lines 299-307: the capability raises; generate_answers has no handler and
\* returns nothing, the exception ends the loop
AskRaises(q) ==
    /\ chatpc = "loop" /\ turns < MaxTurns
    /\ \E ranking \in Rankings(Matching(collection, Str(selected_company)),
                                default_top_k) :
          prompt' = BuildPrompt(CliQuery(q), [k \in 1..Len(ranking) |->
                                                ranking[k].document])
    /\ answer' = NotReturned
    /\ chatpc' = "raised"
    /\ UNCHANGED <<selected_company, turns, answer_context, conversation_history,
                   uiOutcome>>
    /\ UNCHANGED <<indexVars, diskVars, run2Vars>>

\* lines 460-462: the user types exit
Exit ==
    /\ chatpc = "loop"
    /\ chatpc' = "exited"
    /\ UNCHANGED <<selected_company, turns, answer_context, conversation_history,
                   prompt, uiOutcome, answer>>
    /\ UNCHANGED <<indexVars, diskVars, run2Vars>>

\* app.py, lines 115-173: a question asked through the UI.  query_transcripts
\* returns a list of documents, relevant_transcripts['documents'] raises
\* TypeError, the handler reports it; no prompt is sent and nothing is
\* appended to the conversation history
UIAsk ==
    /\ uiOutcome' = "TypeError"
    /\ uiOutcome # "TypeError"
    /\ UNCHANGED <<selected_company, turns, answer_context, conversation_history,
                   prompt, chatpc, answer>>
    /\ UNCHANGED <<indexVars, diskVars, run2Vars>>

NextChat ==
    \/ SelectCompany
    \/ \E q \in Texts, a \in Replies : Ask(q, a)
    \/ \E q \in Texts : AskNoContent(q)
    \/ \E q \in Texts : AskRaises(q)
    \/ Exit
    \/ UIAsk

SpecChat == InitChat /\ [][NextChat]_vars

\* ================================================================== claims
Registry == metaFile.data.processed_files
ChunksOfFile(f) == {k \in 1..Len(chunked) : chunked[k].Filename = f}

\* a pipeline run has completed without error and wrote chunks of every file
\* its scan returned; nothing has happened since
RunCompleted ==
    /\ pc = "done" /\ driver = "pipeline" /\ processed > 0
    /\ FilenamesOf(transcripts) = ChunkFiles

\* C1: after an indexing run (fetch_earning_transcript, chunk_transcripts,
\* vectorize_transcripts) has completed without error, a second scan of the
\* unchanged folder returns an empty new/changed set, whether the run indexed
\* brand-new files or files registered with another fingerprint.
IdempotentRescan ==
    RunCompleted =>
        \A listing \in Listings : fetch_earning_transcript(listing) = << >>

\* C2: after a completed vectorize_transcripts run every indexed filename has
\* one registry entry whose hash is the fingerprint of the last version of the
\* file that a run indexed successfully; a re-indexed file gets the new hash.
RegistryFingerprint ==
    (pc = "done" /\ processed > 0) =>
        \A f \in DOMAIN lastIndexed :
            /\ f \in DOMAIN Registry
            /\ Registry[f].hash = lastIndexed[f]

\* C3: in every run of vectorize_transcripts, completed or stopped after some
\* batches, for every batch size, the ids written are pairwise distinct, none
\* was in the store before the run started, and every one of them is stored.
IdsUnique ==
    /\ \A a, b \in 1..Len(runIds) : runIds[a] = runIds[b] => a = b
    /\ \A a \in 1..Len(runIds) : runIds[a] \notin StoreIds(storeBefore)
    /\ StoreIds(collection) = StoreIds(storeBefore) \cup {runIds[a] : a \in 1..Len(runIds)}
    /\ Count(collection) = Count(storeBefore) + Len(runIds)

\* C3 witness: a second run against a store that already holds records has
\* written a batch and stopped before its last batch.
IdsUniqueWitness ==
    /\ pc = "aborted" /\ storeBefore # {}
    /\ runIds # << >> /\ i < Len(chunked)

\* C4: after a completed vectorize_transcripts run the registry's chunk count
\* of every file of the run is the number of chunks of that file written to
\* the store in the run.
PerFileChunkCount ==
    (pc = "done" /\ processed > 0) =>
        \A f \in ChunkFiles :
            /\ f \in DOMAIN Registry
            /\ Registry[f].chunks = Cardinality(ChunksOfFile(f))

\* C5: the registry file is written only by the step that ends a
\* vectorize_transcripts run, after every batch has been added; when a run
\* stops after the scan or after any number of batches the file is as it was
\* before the run, and the next scan returns every file of the stopped run.
RegistryCrashSafe ==
    /\ [](pc = "aborted" =>
            /\ metaFile = regBefore
            /\ \A listing \in Listings :
                  FilenamesOf(transcripts)
                     \subseteq FilenamesOf(fetch_earning_transcript(listing)))
    /\ [][metaFile' # metaFile =>
            (pc = "vectorizing" /\ i >= Len(chunked) /\ pc' = "done")]_vars

\* C5 witness: a run over a registered corpus stopped after a committed batch.
RegistryCrashSafeWitness ==
    /\ pc = "aborted" /\ regBefore.exists
    /\ transcripts # << >> /\ i > 0 /\ collection # storeBefore

\* C6: the scan returns exactly the .txt files of the folder that have no
\* registry entry or whose fingerprint differs from the stored hash, each once
\* and with its current content and fingerprint; a file whose fingerprint
\* equals the stored hash is not returned.
ScanClassification ==
    pc = "fetched" =>
        LET expected ==
              {f \in FileNames :
                  /\ folderExists /\ files[f] # 0 /\ EndsWithTxt(f)
                  /\ \/ f \notin DOMAIN Registry
                     \/ Registry[f].hash # get_file_hash(files[f])}
        IN  /\ FilenamesOf(transcripts) = expected
            /\ Len(transcripts) = Cardinality(expected)
            /\ \A k \in 1..Len(transcripts) :
                  /\ transcripts[k].hash = get_file_hash(files[transcripts[k].filename])
                  /\ transcripts[k].content = files[transcripts[k].filename]
                  /\ transcripts[k].company = SplitFirst(transcripts[k].filename)

\* C6 witness: a scan skipped a registered, unchanged file and returned a
\* registered file whose content had changed.
ScanClassificationWitness ==
    /\ pc = "fetched"
    /\ \E f \in DOMAIN Registry :
          /\ files[f] # 0 /\ Registry[f].hash = get_file_hash(files[f])
          /\ f \notin FilenamesOf(transcripts)
    /\ \E g \in DOMAIN Registry :
          /\ Registry[g].hash # get_file_hash(files[g])
          /\ g \in FilenamesOf(transcripts)

\* C7: when the scan finds documents that yield chunks,
\* update_vector_database_incremental writes their chunks to the store,
\* persists the registry and returns True; when the scan finds nothing it
\* returns True and touches neither the store nor the registry.
IncrementalUpdateProgress ==
    (driver = "update" /\ ret # "none" /\ (transcripts = << >> \/ chunked # << >>)) =>
        /\ ret = "True"
        /\ IF transcripts = << >>
           THEN collection = storeBefore /\ metaFile = regBefore
           ELSE /\ Count(collection) = Count(storeBefore) + Len(chunked)
                /\ metaFile.exists /\ metaFile # regBefore

\* C8: the prompt sent to the generation capability carries at most the
\* max_history most recent prior turns, the oldest dropped first.
HistoryTruncated ==
    prompt # << >> =>
        TurnsIn(prompt) \subseteq {n \in 1..(turns - 1) : n >= turns - max_history}

\* C9: when a string is supplied as the company filter, no record returned by
\* query_transcripts has another company; the whole collection is searched
\* only when no filter is supplied.
FilterCorrect ==
    (results.asked /\ results.company.given) =>
        \A k \in 1..Len(results.docs) :
            results.docs[k].company = results.company.val

\* C10: when the folder does not exist the incremental update does not report
\* success, and neither the registry nor the store is changed.
MissingFolderIsError ==
    (driver = "update" /\ pc = "done" /\ ~folderExists) =>
        /\ ret # "True"
        /\ metaFile = regBefore /\ collection = storeBefore

\* the record that line 173 builds from the k-th chunk of the run
RecordOf(k) ==
    [id |-> ChunkId(existing_count + (k - 1)),
     document |-> chunked[k].Text,
     embedding |-> <<"vec", chunked[k].Text>>,
     company |-> chunked[k].Company,
     filename |-> chunked[k].Filename,
     chunk_index |-> chunked[k].ChunkIndex]

\* C12: when the embedding call fails for batch k of a vectorize_transcripts
\* run, exactly the records of batches 0..k-1 have been added to the store and
\* stay there, no record of batch k or of a later batch is added, no later
\* batch is attempted and the registry file is not written.
BatchFailureSemantics ==
    (pc = "aborted" /\ driver = "pipeline" /\ chunked # << >>) =>
        /\ i % batch_size = 0
        /\ collection = storeBefore \cup {RecordOf(k) : k \in 1..Min(i, Len(chunked))}
        /\ Count(collection) = Count(storeBefore) + Min(i, Len(chunked))
        /\ metaFile = regBefore
        /\ ~ENABLED VecBatch

\* C12 witness: the call failed for the second batch of a run of three chunks
\* in batches of one.
BatchFailureWitness ==
    /\ pc = "aborted" /\ batch_size = 1
    /\ i = 1 /\ Len(chunked) = 3

\* C17: vectorize_transcripts called with no chunks returns 0, makes no
\* embedding call and no insert, and leaves the registry file (entries,
\* total_chunks, last_update) as it was.
EmptyInputNoOp ==
    (pc = "done" /\ driver = "pipeline" /\ chunked = << >>) =>
        /\ processed = 0
        /\ total_api_calls = 0 /\ runIds = << >>
        /\ collection = storeBefore
        /\ metaFile = regBefore

\* C17 witness: a run over a registered corpus whose scan returned only an
\* empty file ended with no chunks.
EmptyInputWitness ==
    /\ pc = "done" /\ processed = 0
    /\ transcripts # << >> /\ chunked = << >>
    /\ metaFile.exists /\ collection # {}

\* C19: across incremental indexing runs no record is deleted from or
\* overwritten in the store; after a changed file is re-indexed the records of
\* its previous version are still there beside the new ones, which have other
\* ids.
StaleRecordsAccumulate ==
    /\ [][collection \subseteq collection']_vars
    /\ [](pc = "done" =>
            /\ storeBefore \subseteq collection
            /\ \A r \in collection \ storeBefore : r.id \notin StoreIds(storeBefore)
            /\ \A k \in 1..Len(chunked) : RecordOf(k) \in collection)

\* C19 witness: a completed run re-indexed a file whose earlier version has
\* records in the store.
StaleRecordsWitness ==
    /\ pc = "done" /\ processed > 0
    /\ \E r \in storeBefore, k \in 1..Len(chunked) :
          /\ r.filename = chunked[k].Filename
          /\ r.document[2] # chunked[k].Text[2]

\* C20: the chunk_index values of the chunks of every document are 0, 1, ...,
\* n-1 in order of appearance, starting again at 0 for each document, and each
\* stored record carries the company, filename and chunk_index of its chunk.
ChunkOrdinals ==
    /\ \A k \in 1..Len(chunked) :
          chunked[k].ChunkIndex =
             Cardinality({m \in 1..(k - 1) : chunked[m].Filename = chunked[k].Filename})
    /\ pc \in {"chunked", "vectorizing"} =>
          \A t \in 1..Len(transcripts) :
             LET own == {k \in 1..Len(chunked) :
                            chunked[k].Filename = transcripts[t].filename}
             IN  /\ Cardinality(own) = Len(split_text(transcripts[t].content))
                 /\ \A k \in own :
                       /\ chunked[k].Text =
                             split_text(transcripts[t].content)[chunked[k].ChunkIndex + 1]
                       /\ chunked[k].Company = transcripts[t].company
                       /\ \A m \in own : m < k =>
                             \A x \in m..k : x \in own
    /\ \A k \in 1..Min(i, Len(chunked)) :
          \E r \in collection :
             /\ r.id = ChunkId(existing_count + (k - 1))
             /\ r.company = SplitFirst(chunked[k].Filename)
             /\ r.filename = chunked[k].Filename
             /\ r.chunk_index = chunked[k].ChunkIndex
             /\ r.document = chunked[k].Text

\* C20 witness: a completed run stored the chunks of two documents, one of
\* them with two chunks.
ChunkOrdinalsWitness ==
    /\ pc = "done" /\ Cardinality(ChunkFiles) = 2
    /\ \E k \in 1..Len(chunked) : chunked[k].ChunkIndex = 1

\* C18: generate_answers returns the text of the generation capability; when
\* the capability raises or gives no content it ends in a failure, and it
\* never returns an empty or null value as if it were an answer.
SynthesisFailureSurfaced ==
    answer.returned =>
        /\ answer.content.given
        /\ answer.content.val # ""

\* the response is the word yes, in any letter case
IsYes(r) ==
    /\ Len(r) = 3
    /\ r[1] \in {"y", "Y"} /\ r[2] \in {"e", "E"} /\ r[3] \in {"s", "S"}

\* C13: rebuild_database_from_scratch deletes the collection and the registry
\* only after the confirmation 'yes'; for any other response it returns
\* without deleting or changing the collection, its records or the registry
\* file.
DeclinedRebuildNoOp ==
    /\ [][(driver' = "rebuild" /\ ~IsYes(response')) =>
              UNCHANGED <<collection, metaFile, clock, files>>]_vars
    /\ []((driver = "rebuild" /\ ~IsYes(response)) =>
              /\ pc = "done" /\ ret = "False"
              /\ collection = storeBefore /\ metaFile = regBefore)

\* C13 witness: a rebuild was declined over a store holding records and a
\* registry file.
DeclinedRebuildWitness ==
    /\ driver = "rebuild" /\ response = <<"n", "o">>
    /\ pc = "done" /\ ret = "False"
    /\ collection # {} /\ metaFile.exists

\* C14: a confirmed rebuild against a folder that does not exist fails with
\* the records of the store and the registry file as they were before the run.
RebuildMissingFolderNoChange ==
    (driver = "rebuild" /\ ret = "FileNotFoundError") =>
        /\ collection = storeBefore
        /\ metaFile = regBefore

\* C11: when hashing or reading one listed file fails during a scan (the file
\* disappeared after the listing), that file is skipped and the scan returns
\* every other new or changed file of the folder.
ReadErrorSkipped ==
    (driver = "pipeline" /\ ret = "FileNotFoundError") =>
        /\ pc = "fetched"
        /\ \E listing \in Listings : transcripts = fetch_earning_transcript(listing)

\* C15: a kill at any point of save_metadata leaves the registry file equal
\* to the complete previous registry or to the complete new one, never empty
\* or partly written, so load_metadata succeeds after the restart.
AtomicRegistryRewrite ==
    /\ (pc = "aborted" /\ chunked # << >> /\ i >= Len(chunked)) =>
          /\ metaBytes = "complete"
          /\ metaFile \in {regBefore, save_metadata(metadata)}
    /\ ret # "JSONDecodeError"

\* both runs of vectorize_transcripts read the count of the same store, before
\* either had inserted, and both have passed ids to collection.add
BothReadBeforeInsert ==
    /\ pc \in {"vectorizing", "done"} /\ runIds # << >>
    /\ pc2 \in {"vectorizing", "done"} /\ runIds2 # << >>
    /\ storeBefore = storeBefore2

\* C16: when two vectorize_transcripts runs on the same store interleave so
\* that both read the store count before either inserts, both use the same
\* base offset and pass at least one identical id to the store; nothing in
\* the code prevents the interleaving.
IdCollision ==
    BothReadBeforeInsert =>
        /\ existing_count = existing_count2
        /\ runIds[1] = runIds2[1]
        /\ \E a \in 1..Len(runIds), b \in 1..Len(runIds2) : runIds[a] = runIds2[b]

\* C16 witness: both runs are inside their loops, started from the same
\* store, and each has added a batch.
IdCollisionWitness ==
    /\ BothReadBeforeInsert
    /\ pc = "vectorizing" /\ pc2 = "vectorizing"
    /\ i < Len(chunked) /\ i2 < Len(chunked2)

\* ceil(n / b)
Ceil(n, b) == (n + b - 1) \div b

\* C21: a completed vectorize_transcripts run over n >= 1 chunks with any
\* batch size makes ceil(n / batch_size) embedding calls and as many inserts,
\* one per batch; every batch but the last holds batch_size chunks; every
\* chunk is inserted once, in input order, with id, text and metadata aligned;
\* the run returns n and the store count grows by n.
BatchingExact ==
    /\ pc = "vectorizing" =>
          /\ i % batch_size = 0
          /\ runIds = [k \in 1..Min(i, Len(chunked)) |->
                          ChunkId(existing_count + (k - 1))]
          /\ collection = storeBefore
                            \cup {RecordOf(k) : k \in 1..Min(i, Len(chunked))}
          /\ Count(collection) = Count(storeBefore) + Min(i, Len(chunked))
    /\ (pc = "done" /\ driver = "pipeline" /\ chunked # << >>) =>
          /\ total_api_calls = Ceil(Len(chunked), batch_size)
          /\ processed = Len(chunked)
          /\ runIds = [k \in 1..Len(chunked) |-> ChunkId(existing_count + (k - 1))]
          /\ collection = storeBefore \cup {RecordOf(k) : k \in 1..Len(chunked)}
          /\ Count(collection) = Count(storeBefore) + Len(chunked)

\* C21 witness: a run over three chunks in batches of two has completed, the
\* last batch holding one chunk.
BatchingWitness ==
    /\ pc = "done" /\ processed = 3
    /\ batch_size = 2 /\ total_api_calls = 2

\* C22: after a completed indexing run every document that the scan returned
\* has a registry entry with its hash, a document whose text gives no chunk
\* (an empty .txt file) included, so that it is not reported again by every
\* later scan.
RegistryComplete ==
    (pc = "done" /\ driver = "pipeline" /\ processed >= 0) =>
        /\ \A t \in 1..Len(transcripts) :
              /\ transcripts[t].filename \in DOMAIN Registry
              /\ Registry[transcripts[t].filename].hash = transcripts[t].hash
        /\ \A t \in 1..Len(transcripts) :
              split_text(transcripts[t].content) = << >> =>
                 \A listing \in Listings :
                    transcripts[t].filename
                       \notin FilenamesOf(fetch_earning_transcript(listing))

ChunkFiles2 == {chunked2[k].Filename : k \in 1..Len(chunked2)}

\* C23: when two vectorize_transcripts runs on disjoint sets of files overlap
\* in time, each loading the registry at its start and saving it at its end,
\* the registry file after both have finished holds the entries of the files
\* of both runs; the later save does not erase what the earlier one wrote.
NoLostRegistryUpdate ==
    (/\ pc = "done" /\ runIds # << >>
     /\ pc2 = "done" /\ runIds2 # << >>
     /\ storeBefore = storeBefore2
     /\ ChunkFiles \cap ChunkFiles2 = {}) =>
        \A f \in ChunkFiles \cup ChunkFiles2 : f \in DOMAIN Registry

====
